---- MODULE Spec2Model ----
(***************************************************************************)
(* p5.book: a Book collects one canvas capture per addPage() into a PDF,   *)
(* with optional bleed and crop marks, exports reader spreads and          *)
(* saddle-stitch impositions, and flows text into column boxes.            *)
(*                                                                         *)
(* Lengths that the code computes in floating point are kept as reduced    *)
(* fractions <<numerator, denominator>>. A JavaScript null/undefined is    *)
(* the empty tuple Null, a present value v is Some(v).                     *)
(***************************************************************************)
EXTENDS Integers, Sequences, FiniteSets, TLC

VARIABLES
    totalPages,     \* this.totalPages: Null (open-ended) or Some(n)
    page,           \* this.page: 0-based index of the page being drawn
    _unit,          \* this._unit
    _filename,      \* this._filename, a sequence of name pieces
    _bleed,         \* this._bleed, a fraction in book units
    _printMarks,    \* this._printMarks
    _spread,        \* this._spread
    _saddleStitch,  \* this._saddleStitch
    _dpi,           \* this._dpi: Null or Some(dpi)
    density,        \* the sketch's pixelDensity, a fraction
    bleed,          \* this.bleed: the no-op proxy or the graphics buffer, with
                    \* the pages whose bleed drawing the buffer holds
    _rawCanvases,   \* this._rawCanvases: composited page rasters
    _pageImages,    \* this._pageImages: their JPEG encodings
    _pdf,           \* this._pdf: the jsPDF document under construction
    looping,        \* whether the sketch's draw loop still runs
    viewers,        \* number of viewer overlays _showViewer has opened
    out,            \* what the last call reported (throw, alert, log, file)
    _columns,       \* this._columns
    _columnGutter,  \* this._columnGutter
    flow            \* the caller-held text-flow continuation

bookVars == <<totalPages, page, _unit, _filename, _bleed, _printMarks, _spread,
              _saddleStitch, _dpi, density, bleed, _rawCanvases, _pageImages,
              _pdf, looping, viewers>>
textVars == <<_columns, _columnGutter, flow>>
vars == <<bookVars, out, textVars>>

----------------------------------------------------------------------------
(* Bounds of the model.                                                     *)

MaxPages == 3
MaxTotal == 3
MaxViewers == 2
MaxSheetPages == 8
MaxTextLen == 5

----------------------------------------------------------------------------
(* Values.                                                                  *)

Null == <<>>
Some(x) == <<x>>
Val(o) == o[1]

RECURSIVE Gcd(_, _)
Gcd(a, b) == IF b = 0 THEN a ELSE Gcd(b, a % b)

Abs(x) == IF x < 0 THEN -x ELSE x

\* The number n/d in lowest terms with a positive denominator.
Frac(n, d) ==
    LET g == Gcd(Abs(n), Abs(d))
        s == IF d < 0 THEN -1 ELSE 1
    IN  <<(s * n) \div g, (s * d) \div g>>

FInt(n) == <<n, 1>>
FAdd(a, b) == Frac(a[1] * b[2] + b[1] * a[2], a[2] * b[2])
FMul(a, b) == Frac(a[1] * b[1], a[2] * b[2])
FDiv(a, b) == Frac(a[1] * b[2], a[2] * b[1])
FGt(a, b) == a[1] * b[2] > b[1] * a[2]

UNITS == {"in", "cm", "mm", "px", "pt"}

\* MM_PER_UNIT[u] for a key of the table.
MM_PER_UNIT(u) ==
    CASE u = "in" -> <<127, 5>>
      [] u = "cm" -> <<10, 1>>
      [] u = "mm" -> <<1, 1>>
      [] u = "pt" -> <<127, 360>>
      [] u = "px" -> <<127, 480>>

\* MM_PER_UNIT[u] || 25.4
MmPerUnitOr(u) == IF u \in UNITS THEN MM_PER_UNIT(u) ELSE <<127, 5>>

----------------------------------------------------------------------------
(* Arguments the sketch passes.                                             *)

TrimW == 4
TrimH == 6
TotalArgs == {Null} \cup {Some(n) : n \in 1..MaxTotal}
UnitArgs == {Some("mm"), Some("furlong")}
DpiArgs == {300}
BleedAmounts == {0, 3}
BleedUnits == {Null, Some("mm"), Some("furlong")}
FilenameArgs == {Null, Some(<<"zine", ".pdf">>)}
DefaultFilename == <<"book", ".pdf">>

----------------------------------------------------------------------------
(* What a call reports.                                                     *)

\* call: the method called; thrown: the message of the Error it threw ("" if
\* it returned); console: what it passed to console.error; alert: what it
\* passed to alert(); pairs: the pair list it handed to
\* _buildSpreadsFromPairs; built: the document a builder returned; saved: the
\* file it downloaded.
\* drawn: its p.text() calls; measured: its calls of p's text metrics
\* (textLeading, textSize, textAscent, textWidth), in order; args: the
\* arguments of a columnNum call; returned: the number or string it
\* returned (Null for undefined and for `this`).
Quiet(call) ==
    [call |-> call, thrown |-> "", console |-> "", alert |-> Null,
     pairs |-> Null, built |-> Null, saved |-> Null, drawn |-> <<>>,
     measured |-> <<>>, args |-> <<>>, returned |-> Null]

Throws(call, msg) == [Quiet(call) EXCEPT !.thrown = msg]

----------------------------------------------------------------------------
(* Derived sizes and properties.                                            *)

bleedWidthOf(b) == FAdd(FInt(TrimW), FMul(FInt(2), b))
bleedHeightOf(b) == FAdd(FInt(TrimH), FMul(FInt(2), b))
bleedWidth == bleedWidthOf(_bleed)
bleedHeight == bleedHeightOf(_bleed)

pageNumber == page + 1

\* A progress that divides by the page count instead of the last index.
progressOverTotal(p, total) ==
    IF total # Null /\ Val(total) > 1 THEN Frac(p, Val(total)) ELSE FInt(1)

\* totalPages > 1 ? page / (totalPages - 1) : 1   (null > 1 is false)
progressOf(p, total) ==
    IF total # Null /\ Val(total) > 1 THEN Frac(p, Val(total) - 1) ELSE FInt(1)

progress == progressOf(page, totalPages)

isFirstPage == page = 0

\* page === totalPages - 1   (null - 1 is -1, which no page index equals)
isLastPage == IF totalPages = Null THEN page = -1 ELSE page = Val(totalPages) - 1

----------------------------------------------------------------------------
(* The jsPDF document: a sequence of pages, each with its size, the image  *)
(* placed on it and the crop-mark segments drawn on it with pdf.line().     *)

BlankPage(w, h) == [size |-> <<w, h>>, img |-> Null, marks |-> <<>>]

\* new jsPDF({format: [w, h]}) starts with one blank page.
NewPdf(w, h) == <<BlankPage(w, h)>>

\* toDataURL("image/jpeg", 0.92)
Jpeg(raster) == [jpeg |-> raster]

\* One pdf.line(ax, ay, bx, by): the code sets no dash pattern, so every
\* segment is drawn solid.
Line(ax, ay, bx, by) == [dashed |-> FALSE, ax |-> ax, ay |-> ay, bx |-> bx, by |-> by]

\* _drawPrintMarksOn(pdf, trimW, trimH, b): nothing when b <= 0, else the
\* eight segments of `lines`, from the page edge to 1mm before the trim line.
PrintMarksOn(trimW, trimH, b) ==
    IF ~FGt(b, FInt(0)) THEN <<>>
    ELSE LET u == MmPerUnitOr(_unit)
             gap == FDiv(FInt(1), u)
             ngap == FMul(FInt(-1), gap)
             zero == FInt(0)
             x0 == b
             y0 == b
             x1 == FAdd(b, FInt(trimW))
             y1 == FAdd(b, FInt(trimH))
             pw == FAdd(FMul(FInt(2), b), FInt(trimW))
             ph == FAdd(FMul(FInt(2), b), FInt(trimH))
         IN  << Line(zero, y0, FAdd(x0, ngap), y0),
                Line(x0, zero, x0, FAdd(y0, ngap)),
                Line(pw, y0, FAdd(x1, gap), y0),
                Line(x1, zero, x1, FAdd(y0, ngap)),
                Line(zero, y1, FAdd(x0, ngap), y1),
                Line(x0, ph, x0, FAdd(y1, gap)),
                Line(pw, y1, FAdd(x1, gap), y1),
                Line(x1, ph, x1, FAdd(y1, gap)) >>

\* addImage and the marks go onto the document's current (last) page.
OnLastPage(pdf, img, marks) ==
    [pdf EXCEPT ![Len(pdf)] = [@ EXCEPT !.img = Some(img), !.marks = @ \o marks]]

----------------------------------------------------------------------------
(* Construction: createBook(width, height, totalPages, unitOrFilename),     *)
(* the custom-size branch of the constructor.                               *)

\* new Proxy({}, { get: () => () => {} }): every method is a no-op.
NoopProxy == [noop |-> TRUE, ink |-> {}]

\* createGraphics(width, height) behind a forwarding proxy: an empty buffer.
Graphics == [noop |-> FALSE, ink |-> {}]

\* this.bleed.clear()
Clear(buf) == [buf EXCEPT !.ink = {}]

DefaultCanvasW == 500
DefaultColumns == 1
DefaultGutter == 20

BookInitWith(tp, u) ==
        LET known == u # Null /\ Val(u) \in UNITS
        IN  /\ totalPages = tp
            /\ page = 0
            /\ _unit = IF known THEN Val(u) ELSE "in"
            /\ _filename = IF known \/ u = Null THEN DefaultFilename ELSE <<Val(u)>>
            /\ _bleed = FInt(0)
            /\ _printMarks = FALSE
            /\ _spread = FALSE
            /\ _saddleStitch = FALSE
            /\ _dpi = Null
            /\ density = FInt(1)
            /\ bleed = NoopProxy
            /\ _rawCanvases = <<>>
            /\ _pageImages = <<>>
            /\ _pdf = NewPdf(FInt(TrimW), FInt(TrimH))
            /\ looping = TRUE
            /\ viewers = 0
            /\ out = Quiet("createBook")
            /\ _columns = DefaultColumns
            /\ _columnGutter = DefaultGutter

BookInit == \E tp \in TotalArgs, u \in UnitArgs : BookInitWith(tp, u)

----------------------------------------------------------------------------
(* Configuration.                                                           *)

setDPI(dpi) ==
    IF page > 0
    THEN /\ out' = Throws("setDPI", "setDPI() must be called before addPage()")
         /\ UNCHANGED <<bookVars, textVars>>
    ELSE LET trimW_in == FDiv(FMul(FInt(TrimW), MmPerUnitOr(_unit)), <<127, 5>>)
         IN  /\ _dpi' = Some(dpi)
             /\ density' = FDiv(FMul(FInt(dpi), trimW_in), FInt(DefaultCanvasW))
             /\ out' = Quiet("setDPI")
             /\ UNCHANGED <<totalPages, page, _unit, _filename, _bleed,
                            _printMarks, _spread, _saddleStitch, bleed,
                            _rawCanvases, _pageImages, _pdf, looping, viewers,
                            textVars>>

setSaddleStitch(enabled) ==
    /\ _saddleStitch' = enabled
    /\ out' = Quiet("setSaddleStitch")
    /\ UNCHANGED <<totalPages, page, _unit, _filename, _bleed, _printMarks,
                   _spread, _dpi, density, bleed, _rawCanvases, _pageImages,
                   _pdf, looping, viewers, textVars>>

setSpread(enabled) ==
    IF page > 0
    THEN /\ out' = Throws("setSpread", "setSpread() must be called before addPage()")
         /\ UNCHANGED <<bookVars, textVars>>
    ELSE /\ _spread' = enabled
         /\ out' = Quiet("setSpread")
         /\ UNCHANGED <<totalPages, page, _unit, _filename, _bleed,
                        _printMarks, _saddleStitch, _dpi, density, bleed,
                        _rawCanvases, _pageImages, _pdf, looping, viewers,
                        textVars>>

\* _rebuildPDF: a fresh document whose page is trim + bleed on all sides.
RebuildPDF(b) == NewPdf(bleedWidthOf(b), bleedHeightOf(b))

\* A setBleed without the phase check.
setBleedAnyTime(amount, unit) ==
    LET srcUnit == IF unit # Null THEN Val(unit) ELSE _unit
        amountMM == FMul(FInt(amount), MmPerUnitOr(srcUnit))
        b == FDiv(amountMM, MmPerUnitOr(_unit))
    IN  /\ _bleed' = b
        /\ _printMarks' = TRUE
        /\ _pdf' = RebuildPDF(b)
        /\ bleed' = Graphics
        /\ out' = Quiet("setBleed")
        /\ UNCHANGED <<totalPages, page, _unit, _filename, _spread,
                       _saddleStitch, _dpi, density, _rawCanvases,
                       _pageImages, looping, viewers, textVars>>

setBleed(amount, unit) ==
    IF page > 0
    THEN /\ out' = Throws("setBleed", "setBleed() must be called before addPage()")
         /\ UNCHANGED <<bookVars, textVars>>
    ELSE LET srcUnit == IF unit # Null THEN Val(unit) ELSE _unit
             amountMM == FMul(FInt(amount), MmPerUnitOr(srcUnit))
             b == FDiv(amountMM, MmPerUnitOr(_unit))
         IN  /\ _bleed' = b
             /\ _printMarks' = TRUE
             /\ _pdf' = RebuildPDF(b)
             /\ bleed' = Graphics
             /\ out' = Quiet("setBleed")
             /\ UNCHANGED <<totalPages, page, _unit, _filename, _spread,
                            _saddleStitch, _dpi, density, _rawCanvases,
                            _pageImages, looping, viewers, textVars>>

setPrintMarks(enabled) ==
    /\ _printMarks' = enabled
    /\ out' = Quiet("setPrintMarks")
    /\ UNCHANGED <<totalPages, page, _unit, _filename, _bleed, _spread,
                   _saddleStitch, _dpi, density, bleed, _rawCanvases,
                   _pageImages, _pdf, looping, viewers, textVars>>

----------------------------------------------------------------------------
(* Capture.                                                                 *)

\* book.bleed.background(...) in draw(), while page `page` is being drawn:
\* a call on the no-op proxy does nothing, a call on the buffer draws.
bleedDraw ==
    /\ bleed' = IF bleed.noop THEN bleed ELSE [bleed EXCEPT !.ink = @ \cup {page}]
    /\ out' = Quiet("bleed.background")
    /\ UNCHANGED <<totalPages, page, _unit, _filename, _bleed, _printMarks,
                   _spread, _saddleStitch, _dpi, density, _rawCanvases,
                   _pageImages, _pdf, looping, viewers, textVars>>

\* _showViewer: opens one more viewer overlay; its first render reads
\* viewItems[0].src, which throws when there is no page at all.
ShowViewerThrows(n) == IF n = 0 THEN "TypeError" ELSE ""

\* Math.floor and Math.round (halves round up) of a fraction.
Floor(f) == f[1] \div f[2]
Round(f) == Floor(FAdd(f, <<1, 2>>))

\* defaultCanvasH = Math.round(defaultCanvasW * trimH / trimW)
DefaultCanvasH == Round(Frac(DefaultCanvasW * TrimH, TrimW))

\* this._p.canvas.width and .height: the sketch size times the pixel
\* density, as whole pixels.
CanvasW == Floor(FMul(FInt(DefaultCanvasW), density))
CanvasH == Floor(FMul(FInt(DefaultCanvasH), density))

\* The raster pushed to _rawCanvases. With b > 0 it has the size
\* neededW x neededH, holds the bleed buffer scaled to fill it and, over
\* that, the canvas (trimSize) drawn at (offX, offY) (trimAt). Otherwise it
\* is a copy of the canvas.
RawCanvas(b) ==
    IF FGt(b, FInt(0))
    THEN [frame |-> page, under |-> Some(bleed.ink),
          width |-> Round(FDiv(FMul(FInt(CanvasW), bleedWidthOf(b)), FInt(TrimW))),
          height |-> Round(FDiv(FMul(FInt(CanvasH), bleedHeightOf(b)), FInt(TrimH))),
          trimAt |-> <<Round(FMul(FInt(CanvasW), FDiv(b, FInt(TrimW)))),
                       Round(FMul(FInt(CanvasH), FDiv(b, FInt(TrimH))))>>,
          trimSize |-> <<CanvasW, CanvasH>>]
    ELSE [frame |-> page, under |-> Null,
          width |-> CanvasW, height |-> CanvasH,
          trimAt |-> <<0, 0>>, trimSize |-> <<CanvasW, CanvasH>>]

\* A completion test without the null check: page >= null compares with 0.
CompletesNoNullCheck(p) == p >= (IF totalPages = Null THEN 0 ELSE Val(totalPages))

\* this.totalPages != null && this.page >= this.totalPages, after page++
Completes(p) == totalPages # Null /\ p >= Val(totalPages)

\* An addPage that keeps only the latest page image (assignment for push).
addPageKeepsLastImage ==
    LET b == _bleed
        hasBleed == FGt(b, FInt(0))
        pdf1 == IF page > 0
                THEN Append(_pdf, BlankPage(bleedWidth, bleedHeight))
                ELSE _pdf
        rawCanvas == RawCanvas(b)
        pageJpeg == Jpeg(rawCanvas)
        placed == [data |-> pageJpeg,
                   w |-> IF hasBleed THEN bleedWidth ELSE FInt(TrimW),
                   h |-> IF hasBleed THEN bleedHeight ELSE FInt(TrimH)]
        marks == IF _printMarks THEN PrintMarksOn(TrimW, TrimH, b) ELSE <<>>
        done == Completes(page + 1)
    IN  /\ _rawCanvases' = Append(_rawCanvases, rawCanvas)
        /\ _pageImages' = <<pageJpeg>>
        /\ _pdf' = OnLastPage(pdf1, placed, marks)
        /\ bleed' = IF hasBleed THEN Clear(bleed) ELSE bleed
        /\ page' = page + 1
        /\ looping' = IF done THEN FALSE ELSE looping
        /\ viewers' = IF done THEN viewers + 1 ELSE viewers
        /\ out' = Quiet("addPage")
        /\ UNCHANGED <<totalPages, _unit, _filename, _bleed, _printMarks,
                       _spread, _saddleStitch, _dpi, density, textVars>>

addPage ==
    LET b == _bleed
        hasBleed == FGt(b, FInt(0))
        pdf1 == IF page > 0
                THEN Append(_pdf, BlankPage(bleedWidth, bleedHeight))
                ELSE _pdf
        rawCanvas == RawCanvas(b)
        pageJpeg == Jpeg(rawCanvas)
        placed == [data |-> pageJpeg,
                   w |-> IF hasBleed THEN bleedWidth ELSE FInt(TrimW),
                   h |-> IF hasBleed THEN bleedHeight ELSE FInt(TrimH)]
        marks == IF _printMarks THEN PrintMarksOn(TrimW, TrimH, b) ELSE <<>>
        done == Completes(page + 1)
    IN  /\ _rawCanvases' = Append(_rawCanvases, rawCanvas)
        /\ _pageImages' = Append(_pageImages, pageJpeg)
        /\ _pdf' = OnLastPage(pdf1, placed, marks)
        /\ bleed' = IF hasBleed THEN Clear(bleed) ELSE bleed
        /\ page' = page + 1
        /\ looping' = IF done THEN FALSE ELSE looping
        /\ viewers' = IF done THEN viewers + 1 ELSE viewers
        /\ out' = Quiet("addPage")
        /\ UNCHANGED <<totalPages, _unit, _filename, _bleed, _printMarks,
                       _spread, _saddleStitch, _dpi, density, textVars>>

finish(filename) ==
    /\ _filename' = IF filename # Null THEN Val(filename) ELSE _filename
    /\ looping' = FALSE
    /\ viewers' = viewers + 1
    /\ out' = Throws("finish", ShowViewerThrows(Len(_rawCanvases)))
    /\ UNCHANGED <<totalPages, page, _unit, _bleed, _printMarks, _spread,
                   _saddleStitch, _dpi, density, bleed, _rawCanvases,
                   _pageImages, _pdf, textVars>>

----------------------------------------------------------------------------
(* Imposition.                                                              *)

\* ctx.drawImage(src, sx, 0, sw, h, dx, 0, dw, h): columns [sx, sx + sw) of
\* src drawn onto columns [dx, dx + dw). Pixel positions are fractions.
DrawImage(src, sx, sw, dx, dw) == [src |-> src, sx |-> sx, sw |-> sw, dx |-> dx, dw |-> dw]

\* A spread that sets the two rasters side by side whole, inner bleeds kept.
MakeSpreadCanvasWhole(leftCvs, rightCvs) ==
    LET rawW == FInt(leftCvs.width)
    IN  [left |-> leftCvs, right |-> rightCvs,
         width |-> FMul(FInt(2), rawW),
         height |-> leftCvs.height,
         draws |-> << DrawImage("left", FInt(0), rawW, FInt(0), rawW),
                      DrawImage("right", FInt(0), rawW, rawW, rawW) >>]

\* _makeSpreadCanvas: the two rasters side by side, each without its inner
\* bleed strip when b > 0.
MakeSpreadCanvas(leftCvs, rightCvs) ==
    LET mainW == FInt(CanvasW)
        rawW == FInt(leftCvs.width)
        bleedPx == FDiv(FAdd(rawW, FMul(FInt(-1), mainW)), FInt(2))
        trimPlusBleed == FAdd(rawW, FMul(FInt(-1), bleedPx))
    IN  IF FGt(_bleed, FInt(0))
        THEN [left |-> leftCvs, right |-> rightCvs,
              width |-> FAdd(FMul(FInt(2), mainW), FMul(FInt(2), bleedPx)),
              height |-> leftCvs.height,
              draws |-> << DrawImage("left", FInt(0), trimPlusBleed,
                                     FInt(0), trimPlusBleed),
                           DrawImage("right", bleedPx, trimPlusBleed,
                                     trimPlusBleed, trimPlusBleed) >>]
        ELSE [left |-> leftCvs, right |-> rightCvs,
              width |-> FMul(FInt(2), mainW),
              height |-> CanvasH,
              draws |-> << DrawImage("left", FInt(0), mainW, FInt(0), mainW),
                           DrawImage("right", FInt(0), mainW, mainW, mainW) >>]

\* One page of _buildSpreadsFromPairs' document for the pair [li, ri];
\* indices are 0-based as in the code.
SpreadPage(pair) ==
    LET li == pair[1]
        ri == pair[2]
        isSolo == ri = Null
        b == _bleed
        soloW == bleedWidth
        soloH == bleedHeight
        spreadW == FAdd(FMul(FInt(2), FInt(TrimW)), FMul(FInt(2), b))
        cvs == IF isSolo
               THEN _rawCanvases[li + 1]
               ELSE MakeSpreadCanvas(_rawCanvases[li + 1], _rawCanvases[Val(ri) + 1])
    IN  [size |-> IF isSolo THEN <<soloW, soloH>> ELSE <<spreadW, soloH>>,
         img |-> Some([data |-> Jpeg(cvs),
                       w |-> IF isSolo THEN soloW ELSE spreadW,
                       h |-> soloH]),
         marks |-> IF ~_printMarks THEN <<>>
                   ELSE IF isSolo THEN PrintMarksOn(TrimW, TrimH, b)
                   ELSE PrintMarksOn(2 * TrimW, TrimH, b)]

\* _buildSpreadsFromPairs: reading pairs[0][1] throws on an empty list.
BuildSpreadsFromPairs(pairs) ==
    IF pairs = <<>>
    THEN [thrown |-> "TypeError", pairs |-> Some(pairs), built |-> Null]
    ELSE [thrown |-> "", pairs |-> Some(pairs),
          built |-> Some([i \in 1..Len(pairs) |-> SpreadPage(pairs[i])])]

Failed(msg) == [thrown |-> msg, pairs |-> Null, built |-> Null]

\* A pairing loop that stops one pair early (i < n - 3).
RECURSIVE SpreadLoopShort(_, _, _)
SpreadLoopShort(i, n, pairs) ==
    IF i < n - 3
    THEN SpreadLoopShort(i + 2, n, Append(pairs, <<i, Some(i + 1)>>))
    ELSE pairs

\* A pairing loop that pairs each odd index with itself.
RECURSIVE SpreadLoopRepeat(_, _, _)
SpreadLoopRepeat(i, n, pairs) ==
    IF i < n - 1
    THEN SpreadLoopRepeat(i + 2, n, Append(pairs, <<i, Some(i)>>))
    ELSE pairs

\* for (let i = 1; i < n - 1; i += 2) pairs.push([i, i + 1])
RECURSIVE SpreadLoop(_, _, _)
SpreadLoop(i, n, pairs) ==
    IF i < n - 1
    THEN SpreadLoop(i + 2, n, Append(pairs, <<i, Some(i + 1)>>))
    ELSE pairs

SpreadPairs(n) == Append(SpreadLoop(1, n, << <<0, Null>> >>), <<n - 1, Null>>)

\* The reader-spread precondition, n >= 2 and n even.
SpreadCountError(n) ==
    IF n < 2 THEN "spread requires at least 2 pages"
    ELSE IF (n - 2) % 2 # 0 THEN "spread requires an even total page count"
    ELSE ""

BuildSpreadPDF ==
    LET n == Len(_rawCanvases)
    IN  IF SpreadCountError(n) # ""
        THEN Failed(SpreadCountError(n))
        ELSE BuildSpreadsFromPairs(SpreadPairs(n))

\* A signature loop that never swaps sides on the odd sheets.
RECURSIVE SaddleLoopOneSided(_, _, _)
SaddleLoopOneSided(k, n, pairs) ==
    IF 2 * k < n
    THEN SaddleLoopOneSided(k + 1, n, Append(pairs, <<n - 1 - k, Some(k)>>))
    ELSE pairs

\* for (let k = 0; k < n / 2; k++)
\*   pairs.push(k % 2 === 0 ? [n - 1 - k, k] : [k, n - 1 - k])
RECURSIVE SaddleLoop(_, _, _)
SaddleLoop(k, n, pairs) ==
    IF 2 * k < n
    THEN SaddleLoop(k + 1, n,
                    Append(pairs, IF k % 2 = 0
                                  THEN <<n - 1 - k, Some(k)>>
                                  ELSE <<k, Some(n - 1 - k)>>))
    ELSE pairs

SaddlePairs(n) == SaddleLoop(0, n, <<>>)

\* A precondition that only asks for an even page count.
SaddleCountErrorEven(n) ==
    IF n % 2 # 0
    THEN "saveSaddleStitch() requires a page count divisible by 4"
    ELSE ""

\* The saddle-stitch precondition, n divisible by 4.
SaddleCountError(n) ==
    IF n % 4 # 0
    THEN "saveSaddleStitch() requires a page count divisible by 4"
    ELSE ""

BuildSaddleStitchPDF ==
    LET n == Len(_rawCanvases)
    IN  IF SaddleCountError(n) # ""
        THEN Failed(SaddleCountError(n))
        ELSE BuildSpreadsFromPairs(SaddlePairs(n))

\* A direct call of book._buildSpreadPDF(), as the viewer's print button makes.
call_buildSpreadPDF ==
    LET r == BuildSpreadPDF
    IN  /\ out' = [Quiet("_buildSpreadPDF") EXCEPT
                      !.thrown = r.thrown, !.pairs = r.pairs, !.built = r.built]
        /\ UNCHANGED <<bookVars, textVars>>

call_buildSaddleStitchPDF ==
    LET r == BuildSaddleStitchPDF
    IN  /\ out' = [Quiet("_buildSaddleStitchPDF") EXCEPT
                      !.thrown = r.thrown, !.pairs = r.pairs, !.built = r.built]
        /\ UNCHANGED <<bookVars, textVars>>

----------------------------------------------------------------------------
(* Export.                                                                  *)

\* pdf.save(name)
Download(name, doc) == Some([name |-> name, doc |-> doc])

\* A save whose fallback does not log the builder's error.
saveSilently(filename) ==
    LET name == IF filename # Null THEN Val(filename) ELSE _filename
        r == BuildSpreadPDF
    IN  /\ out' =
              IF _spread /\ r.thrown = ""
              THEN [Quiet("save") EXCEPT
                      !.pairs = r.pairs, !.built = r.built,
                      !.saved = Download(name, Val(r.built))]
              ELSE [Quiet("save") EXCEPT !.saved = Download(name, _pdf)]
        /\ UNCHANGED <<bookVars, textVars>>

save(filename) ==
    LET name == IF filename # Null THEN Val(filename) ELSE _filename
        r == BuildSpreadPDF
    IN  /\ out' =
              IF _spread
              THEN IF r.thrown = ""
                   THEN [Quiet("save") EXCEPT
                           !.pairs = r.pairs, !.built = r.built,
                           !.saved = Download(name, Val(r.built))]
                   ELSE [Quiet("save") EXCEPT
                           !.console = r.thrown,
                           !.saved = Download(name, _pdf)]
              ELSE [Quiet("save") EXCEPT !.saved = Download(name, _pdf)]
        /\ UNCHANGED <<bookVars, textVars>>

\* this._filename.replace(".pdf", "-saddle.pdf"): the first ".pdf" only.
RECURSIVE ReplacePdf(_)
ReplacePdf(name) ==
    IF name = <<>> THEN <<>>
    ELSE IF Head(name) = ".pdf" THEN <<"-saddle.pdf">> \o Tail(name)
    ELSE <<Head(name)>> \o ReplacePdf(Tail(name))

\* Math.ceil(n / 4) * 4
Ceil4(n) == ((n + 3) \div 4) * 4

saveSaddleStitch(filename) ==
    LET n == Len(_rawCanvases)
        name == IF filename # Null THEN Val(filename) ELSE ReplacePdf(_filename)
        r == BuildSaddleStitchPDF
    IN  /\ out' =
              IF n = 0
              THEN [Quiet("saveSaddleStitch") EXCEPT
                      !.alert = Some(<<"no pages to export", n, n>>)]
              ELSE IF n % 4 # 0
              THEN [Quiet("saveSaddleStitch") EXCEPT
                      !.alert = Some(<<"page count must be divisible by 4", n, Ceil4(n)>>)]
              ELSE IF r.thrown = ""
              THEN [Quiet("saveSaddleStitch") EXCEPT
                      !.pairs = r.pairs, !.built = r.built,
                      !.saved = Download(name, Val(r.built))]
              ELSE [Quiet("saveSaddleStitch") EXCEPT
                      !.alert = Some(<<r.thrown, n, n>>)]
        /\ UNCHANGED <<bookVars, textVars>>

----------------------------------------------------------------------------
(* Text flow. A string is a sequence of one-character strings.              *)

Chars == {"a", " ", "\n"}

\* The first position of character c in s, 0 when there is none.
IndexOf(s, c) ==
    IF \E i \in 1..Len(s) : s[i] = c
    THEN CHOOSE i \in 1..Len(s) : s[i] = c /\ \A j \in 1..(i - 1) : s[j] # c
    ELSE 0

\* str.split(sep) for a one-character separator.
RECURSIVE Split(_, _)
Split(s, sep) ==
    LET i == IndexOf(s, sep)
    IN  IF i = 0
        THEN <<s>>
        ELSE <<SubSeq(s, 1, i - 1)>> \o Split(SubSeq(s, i + 1, Len(s)), sep)

\* lines.join(sep)
RECURSIVE Join(_, _)
Join(lines, sep) ==
    IF lines = <<>> THEN <<>>
    ELSE IF Len(lines) = 1 THEN lines[1]
    ELSE lines[1] \o <<sep>> \o Join(Tail(lines), sep)

\* p.textWidth(str) in a font whose glyphs are all one unit wide.
textWidth(str) == Len(str)

\* A word loop that breaks the line as soon as the candidate fills the
\* column (>= in place of >).
RECURSIVE WrapWordsTight(_, _, _)
WrapWordsTight(words, line, maxW) ==
    IF words = <<>>
    THEN IF line # <<>> THEN <<line>> ELSE <<>>
    ELSE LET word == Head(words)
             candidate == IF line # <<>> THEN line \o <<" ">> \o word ELSE word
         IN  IF word = <<>>
             THEN WrapWordsTight(Tail(words), line, maxW)
             ELSE IF line # <<>> /\ ~FGt(maxW, FInt(textWidth(candidate)))
             THEN <<line>> \o WrapWordsTight(Tail(words), word, maxW)
             ELSE WrapWordsTight(Tail(words), candidate, maxW)

\* The word loop of _wrapText: returns the lines of one paragraph.
RECURSIVE WrapWords(_, _, _)
WrapWords(words, line, maxW) ==
    IF words = <<>>
    THEN IF line # <<>> THEN <<line>> ELSE <<>>
    ELSE LET word == Head(words)
             candidate == IF line # <<>> THEN line \o <<" ">> \o word ELSE word
         IN  IF word = <<>>
             THEN WrapWords(Tail(words), line, maxW)
             ELSE IF line # <<>> /\ FGt(FInt(textWidth(candidate)), maxW)
             THEN <<line>> \o WrapWords(Tail(words), word, maxW)
             ELSE WrapWords(Tail(words), candidate, maxW)

\* The paragraph loop of _wrapText.
RECURSIVE WrapParas(_, _)
WrapParas(paras, maxW) ==
    IF paras = <<>> THEN <<>>
    ELSE LET para == Head(paras)
         IN  (IF para = <<>>
              THEN << <<>> >>
              ELSE WrapWords(Split(para, " "), <<>>, maxW))
             \o WrapParas(Tail(paras), maxW)

\* Book._wrapText(p, str, maxW)
WrapText(str, maxW) == WrapParas(Split(str, "\n"), maxW)

\* Book._getLeading(p): the explicit leading when it is a positive number,
\* else textSize * 1.25 (text sizes here are multiples of 4).
GetLeading(m) ==
    IF m.leading # Null /\ Val(m.leading) > 0
    THEN Val(m.leading)
    ELSE (m.size * 5) \div 4

Max(a, b) == IF a > b THEN a ELSE b

\* A line budget that forgets the floor of one line per column.
MaxLinesUnclamped(h, ascent, leading) == (h - ascent) \div leading + 1

\* Math.max(1, Math.floor((h - ascent) / leading) + 1)
MaxLines(h, ascent, leading) == Max(1, (h - ascent) \div leading + 1)

\* A column loop that keeps counting rows when it moves to the next column.
RECURSIVE ColumnLoopNoReset(_, _, _, _, _)
ColumnLoopNoReset(col, i, slots, cols, lim) ==
    IF ~(col < cols /\ Len(slots) < lim[2]) THEN slots
    ELSE IF i < lim[1] /\ Len(slots) < lim[2]
    THEN ColumnLoopNoReset(col, i + 1, Append(slots, <<col, i>>), cols, lim)
    ELSE ColumnLoopNoReset(col + 1, i, slots, cols, lim)

\* The two nested loops of textBox, lim = <<maxLines, lines.length>>: the
\* <<col, i>> at which each line in turn is drawn; lineIdx is Len(slots).
RECURSIVE ColumnLoop(_, _, _, _, _)
ColumnLoop(col, i, slots, cols, lim) ==
    IF ~(col < cols /\ Len(slots) < lim[2]) THEN slots
    ELSE IF i < lim[1] /\ Len(slots) < lim[2]
    THEN ColumnLoop(col, i + 1, Append(slots, <<col, i>>), cols, lim)
    ELSE ColumnLoop(col + 1, 0, slots, cols, lim)

\* The p.text(lines[lineIdx], cx, y + ascent + i * leading) calls made at
\* the slots, with cx = x + col * (colW + gutter).
TextCalls(lines, slots, x, y, colW, gutter, ascent, leading) ==
    [j \in 1..Len(slots) |->
        LET col == slots[j][1]
            i == slots[j][2]
        IN  [str |-> lines[j],
             x |-> FAdd(FInt(x), FMul(FInt(col), FAdd(colW, FInt(gutter)))),
             y |-> y + ascent + i * leading]]

\* The p.textWidth() calls of the word loop: `line && p.textWidth(candidate)`
\* measures only when the line already holds a word.
RECURSIVE WidthCalls(_, _, _)
WidthCalls(words, line, maxW) ==
    IF words = <<>> THEN 0
    ELSE LET word == Head(words)
             candidate == IF line # <<>> THEN line \o <<" ">> \o word ELSE word
         IN  IF word = <<>>
             THEN WidthCalls(Tail(words), line, maxW)
             ELSE IF line # <<>> /\ FGt(FInt(textWidth(candidate)), maxW)
             THEN 1 + WidthCalls(Tail(words), word, maxW)
             ELSE (IF line # <<>> THEN 1 ELSE 0)
                  + WidthCalls(Tail(words), candidate, maxW)

\* The p.textWidth() calls of _wrapText over all paragraphs.
RECURSIVE WrapMeasures(_, _)
WrapMeasures(paras, maxW) ==
    IF paras = <<>> THEN 0
    ELSE (IF Head(paras) = <<>> THEN 0
          ELSE WidthCalls(Split(Head(paras), " "), <<>>, maxW))
         + WrapMeasures(Tail(paras), maxW)

\* The metrics calls of a textBox call that gets past its first line:
\* _getLeading (textLeading, and textSize when no leading is set),
\* textAscent, then the textWidth calls of _wrapText.
Measured(str, colW, m) ==
    (IF m.leading # Null /\ Val(m.leading) > 0
     THEN <<"textLeading">> ELSE <<"textLeading", "textSize">>)
    \o <<"textAscent">>
    \o [k \in 1..WrapMeasures(Split(str, "\n"), colW) |-> "textWidth"]

\* A textBox that reads leading and ascent before it tests for empty input.
TextBoxMeasuresFirst(str, box, m) ==
    LET cols == _columns
        gutter == _columnGutter
        colW == Frac(box.w - gutter * (cols - 1), cols)
        leading == GetLeading(m)
        ascent == m.ascent
        maxLines == MaxLines(box.h, ascent, leading)
        lines == WrapText(str, colW)
        slots == ColumnLoop(0, 0, <<>>, cols, <<maxLines, Len(lines)>>)
        lineIdx == Len(slots)
    IN  IF str = <<>>
        THEN [drawn |-> <<>>, overflow |-> <<>>,
              measured |-> Measured(str, colW, m)]
        ELSE [drawn |-> TextCalls(lines, slots, box.x, box.y, colW, gutter,
                                  ascent, leading),
              overflow |-> Join(SubSeq(lines, lineIdx + 1, Len(lines)), "\n"),
              measured |-> Measured(str, colW, m)]

\* textBox(str, x, y, w, h) under the metrics m: the lines it draws, the
\* overflow it returns and the metrics calls it makes.
TextBox(str, box, m) ==
    IF str = <<>>
    THEN [drawn |-> <<>>, overflow |-> <<>>, measured |-> <<>>]
    ELSE LET cols == _columns
             gutter == _columnGutter
             colW == Frac(box.w - gutter * (cols - 1), cols)
             leading == GetLeading(m)
             ascent == m.ascent
             maxLines == MaxLines(box.h, ascent, leading)
             lines == WrapText(str, colW)
             slots == ColumnLoop(0, 0, <<>>, cols, <<maxLines, Len(lines)>>)
             lineIdx == Len(slots)
         IN  [drawn |-> TextCalls(lines, slots, box.x, box.y, colW, gutter,
                                  ascent, leading),
              overflow |-> Join(SubSeq(lines, lineIdx + 1, Len(lines)), "\n"),
              measured |-> Measured(str, colW, m)]

\* A columnNum without the Math.max(1, ...) clamp.
columnNumUnclamped(n, gutter) ==
    /\ _columns' = IF n = Null THEN _columns ELSE Val(n)
    /\ _columnGutter' = IF n # Null /\ gutter # Null THEN Val(gutter) ELSE _columnGutter
    /\ out' = [Quiet("columnNum") EXCEPT
                  !.args = <<n, gutter>>,
                  !.returned = IF n = Null THEN Some(_columns) ELSE Null]
    /\ UNCHANGED <<bookVars, flow>>

\* columnNum(n, gutter); an omitted argument is Null.
columnNum(n, gutter) ==
    /\ _columns' = IF n = Null THEN _columns ELSE Max(1, Val(n))
    /\ _columnGutter' = IF n # Null /\ gutter # Null THEN Val(gutter) ELSE _columnGutter
    /\ out' = [Quiet("columnNum") EXCEPT
                  !.args = <<n, gutter>>,
                  !.returned = IF n = Null THEN Some(_columns) ELSE Null]
    /\ UNCHANGED <<bookVars, flow>>

----------------------------------------------------------------------------
(* The book from construction through configuration and capture.            *)

\* No text is being flowed yet.
NoFlow == [phase |-> "idle"]

Init == BookInit /\ flow = NoFlow

Next ==
    \/ \E dpi \in DpiArgs : setDPI(dpi)
    \/ \E enabled \in BOOLEAN : setSpread(enabled)
    \/ \E amount \in BleedAmounts, unit \in BleedUnits : setBleed(amount, unit)
    \/ \E enabled \in BOOLEAN : setPrintMarks(enabled)
    \/ page < MaxPages /\ addPage
    \/ viewers < MaxViewers /\ \E filename \in FilenameArgs : finish(filename)

Spec == Init /\ [][Next]_vars

----------------------------------------------------------------------------
(* The book from construction through capture to imposition and export.     *)

NextImpose ==
    \/ \E dpi \in DpiArgs : setDPI(dpi)
    \/ \E enabled \in BOOLEAN : setSaddleStitch(enabled)
    \/ \E enabled \in BOOLEAN : setSpread(enabled)
    \/ \E amount \in BleedAmounts, unit \in BleedUnits : setBleed(amount, unit)
    \/ page < MaxSheetPages /\ addPage
    \/ call_buildSpreadPDF
    \/ call_buildSaddleStitchPDF
    \/ \E filename \in FilenameArgs : save(filename)
    \/ \E filename \in FilenameArgs : saveSaddleStitch(filename)

SpecImpose == Init /\ [][NextImpose]_vars

----------------------------------------------------------------------------
(* A sketch that draws into book.bleed before it captures each page.        *)

NextBleed ==
    \/ \E amount \in BleedAmounts, unit \in BleedUnits : setBleed(amount, unit)
    \/ \E enabled \in BOOLEAN : setPrintMarks(enabled)
    \/ bleedDraw
    \/ page < MaxPages /\ addPage

SpecBleed == Init /\ [][NextBleed]_vars

----------------------------------------------------------------------------
(* A sketch that flows one text through textBox, as the text-flow example   *)
(* does: setup() sets the columns and the text, draw() feeds each call's    *)
(* overflow to the next until there is none.                                *)

\* "aa bb cc"
ExampleText == <<"a", "a", " ", "b", "b", " ", "c", "c">>

Texts == UNION {[1..n -> Chars] : n \in 0..MaxTextLen} \cup {ExampleText}
Boxes == {[x |-> 0, y |-> 0, w |-> 3, h |-> 0], [x |-> 2, y |-> 1, w |-> 5, h |-> 8]}
Metrics == {[size |-> 4, leading |-> Null, ascent |-> 3],
            [size |-> 4, leading |-> Some(3), ascent |-> 2]}
ColumnArgs == {Null, Some(0), Some(2)}
GutterArgs == {Null, Some(1)}

\* The column width textBox wraps to in a box, with the standing columns.
ColW(box) == Frac(box.w - _columnGutter * (_columns - 1), _columns)

\* The lines a textBox call on `text` has to place: none for the empty text,
\* which is returned before any wrapping. The sketch's record keeps it in
\* flow.left, to be read by the properties.
LinesLeft(text, box) == IF text = <<>> THEN 0 ELSE Len(WrapText(text, ColW(box)))

\* overflow = STORY, in setup(): no call of the book, nothing reported.
beginFlow(text, box, m) ==
    /\ flow.phase = "idle"
    /\ flow' = [phase |-> "flowing", src |-> text, text |-> text, box |-> box,
                m |-> m, drawn |-> <<>>, calls |-> 0,
                left |-> LinesLeft(text, box)]
    /\ out' = Quiet("setup")
    /\ UNCHANGED <<bookVars, _columns, _columnGutter>>

\* overflow = book.textBox(overflow, x, y, w, h); if (!overflow) noLoop()
textBox ==
    /\ flow.phase = "flowing"
    /\ LET r == TextBox(flow.text, flow.box, flow.m)
       IN  /\ flow' = [flow EXCEPT
                         !.text = r.overflow,
                         !.left = LinesLeft(r.overflow, flow.box),
                         !.calls = @ + 1,
                         !.drawn = @ \o [j \in 1..Len(r.drawn) |-> r.drawn[j].str],
                         !.phase = IF r.overflow = <<>> THEN "done" ELSE "flowing"]
           /\ out' = [Quiet("textBox") EXCEPT !.drawn = r.drawn,
                                              !.measured = r.measured,
                                              !.returned = Some(r.overflow)]
    /\ UNCHANGED <<bookVars, _columns, _columnGutter>>

NextFlow ==
    \/ flow.phase = "idle" /\ \E n \in ColumnArgs, gutter \in GutterArgs : columnNum(n, gutter)
    \/ \E text \in Texts, box \in Boxes, m \in Metrics : beginFlow(text, box, m)
    \/ textBox

\* The draw loop keeps calling draw() until noLoop(), so a pending textBox
\* call is eventually made.
\* createBook(4, 6): an open-ended book in the default unit.
InitFlow == BookInitWith(Null, Null) /\ flow = NoFlow

SpecFlow == InitFlow /\ [][NextFlow]_vars /\ WF_vars(textBox)

----------------------------------------------------------------------------
(* Every method of a book in one sketch: configuration, capture, finish,    *)
(* the builders, both exports, columnNum and textBox, each with one choice  *)
(* of arguments.                                                            *)

NextBook ==
    \/ setDPI(300)
    \/ setSaddleStitch(TRUE)
    \/ setSpread(TRUE)
    \/ setBleed(3, Null)
    \/ setPrintMarks(FALSE)
    \/ page < MaxPages /\ addPage
    \/ viewers < MaxViewers /\ finish(Null)
    \/ call_buildSpreadPDF
    \/ call_buildSaddleStitchPDF
    \/ save(Null)
    \/ saveSaddleStitch(Null)
    \/ columnNum(Null, Null)
    \/ beginFlow(ExampleText, [x |-> 0, y |-> 0, w |-> 5, h |-> 8],
                 [size |-> 4, leading |-> Null, ascent |-> 3])
    \/ textBox

\* createBook(4, 6, 2) or createBook(4, 6)
InitBook == (\E tp \in {Null, Some(2)} : BookInitWith(tp, Null)) /\ flow = NoFlow

SpecBook == InitBook /\ [][NextBook]_vars

----------------------------------------------------------------------------
(* Properties of configuration and capture, checked under Spec.             *)

\* C1: once a page has been captured (page > 0), a call of setBleed, setSpread
\* or setDPI throws and leaves the bleed amount, the print-marks flag, the
\* spread flag, the dpi, the page counter, the stored pages and the document
\* under construction as they were; and no step at all changes the bleed
\* amount once page > 0.
C1_ConfigFrozenAfterCapture ==
    [][/\ (page > 0 /\ out'.call \in {"setBleed", "setSpread", "setDPI"})
           => /\ out'.thrown # ""
              /\ UNCHANGED <<_bleed, _printMarks, _spread, _dpi, density,
                             bleed, page, _rawCanvases, _pageImages, _pdf>>
       /\ page > 0 => _bleed' = _bleed]_vars

\* A setBleed call was made after a capture and threw, on a book whose bleed
\* had been set to a positive amount before the first capture.
C1_Witness ==
    /\ page > 0
    /\ out.call = "setBleed"
    /\ out.thrown = "setBleed() must be called before addPage()"
    /\ FGt(_bleed, FInt(0))

\* C2: over any sequence of addPage() and finish() calls on a book that holds
\* a page, the completion signal (noLoop and _showViewer) is fired at most
\* once: no second viewer is ever opened.
C2_CompletionSignalOnce == Len(_rawCanvases) > 0 => viewers <= 1

\* C3: once the page counter has reached totalPages, addPage() appends no
\* page: the counter never passes totalPages and neither the stored pages
\* nor the document grow beyond totalPages.
C3_NoCapturePastTotal ==
    totalPages # Null =>
        /\ page <= Val(totalPages)
        /\ Len(_rawCanvases) <= Val(totalPages)
        /\ Len(_pageImages) <= Val(totalPages)
        /\ Len(_pdf) <= Val(totalPages)

\* C4: with a target of n pages, progress = page / (n - 1) when n > 1, so it
\* is 0 while page 0 is drawn and 1 while page n - 1 is drawn; and progress
\* is 1 in every state when n = 1.
C4_ProgressValues ==
    totalPages # Null =>
        LET n == Val(totalPages)
        IN  /\ n > 1 => /\ progress[2] > 0
                        /\ progress[1] * (n - 1) = page * progress[2]
                        /\ page = 0 => progress = <<0, 1>>
                        /\ page = n - 1 => progress = <<1, 1>>
            /\ n = 1 => progress = <<1, 1>>

\* The last page of a book of three pages or more is being drawn.
C4_Witness ==
    /\ totalPages # Null
    /\ Val(totalPages) > 2
    /\ page = Val(totalPages) - 1
    /\ out.call = "addPage"

\* C5: in every state of a book with a target page count, before, during and
\* after the last addPage, 0 <= progress <= 1.
C5_ProgressInUnitRange ==
    totalPages # Null => (progress[1] >= 0 /\ progress[1] <= progress[2])

----------------------------------------------------------------------------
(* Properties of imposition and export, checked under SpecImpose.           *)

\* The reader-spread sequence for n pages, n >= 2 even: solo 0, the pairs
\* (1,2), (3,4), ..., (n-3,n-2), solo n-1.
ReaderSequence(n) ==
    [k \in 1..(n \div 2 + 1) |->
        IF k = 1 THEN <<0, Null>>
        ELSE IF k = n \div 2 + 1 THEN <<n - 1, Null>>
        ELSE <<2 * k - 3, Some(2 * k - 2)>>]

\* C6: for n captured pages _buildSpreadPDF throws when n < 2 or n is odd and
\* builds nothing; otherwise it builds exactly solo 0, the consecutive pairs
\* (1,2) .. (n-3,n-2) in order, solo n-1, one document page per entry; for
\* n = 6 that is [(0,none),(1,2),(3,4),(5,none)].
C6_ReaderSpreads ==
    out.call = "_buildSpreadPDF" =>
        LET n == Len(_rawCanvases)
        IN  IF n < 2 \/ n % 2 = 1
            THEN out.thrown # "" /\ out.pairs = Null /\ out.built = Null
            ELSE /\ out.thrown = ""
                 /\ out.pairs = Some(ReaderSequence(n))
                 /\ Len(Val(out.built)) = n \div 2 + 1
                 /\ n = 6 => Val(out.pairs) = << <<0, Null>>, <<1, Some(2)>>,
                                                <<3, Some(4)>>, <<5, Null>> >>

\* _buildSpreadPDF has built the spreads of a six-page book.
C6_Witness ==
    /\ out.call = "_buildSpreadPDF"
    /\ Len(_rawCanvases) = 6
    /\ out.built # Null

\* The saddle-stitch sequence for n pages: sheet k = 0 .. n/2 - 1 carries
\* (n-1-k, k) when k is even and (k, n-1-k) when k is odd.
SaddleSequence(n) ==
    [j \in 1..(n \div 2) |->
        LET k == j - 1
        IN  IF k % 2 = 0 THEN <<n - 1 - k, Some(k)>> ELSE <<k, Some(n - 1 - k)>>]

\* C7: for n captured pages, n divisible by 4, _buildSaddleStitchPDF hands on
\* exactly n/2 pairs, the k-th being (n-1-k, k) for even k and (k, n-1-k) for
\* odd k; for n = 8 that is [(7,0),(1,6),(5,2),(3,4)], one document page each.
C7_SaddleStitchPairs ==
    (out.call = "_buildSaddleStitchPDF" /\ Len(_rawCanvases) % 4 = 0) =>
        LET n == Len(_rawCanvases)
        IN  /\ out.pairs = Some(SaddleSequence(n))
            /\ Len(Val(out.pairs)) = n \div 2
            /\ n > 0 => out.thrown = "" /\ Len(Val(out.built)) = n \div 2
            /\ n = 8 => Val(out.pairs) = << <<7, Some(0)>>, <<1, Some(6)>>,
                                           <<5, Some(2)>>, <<3, Some(4)>> >>

\* _buildSaddleStitchPDF has imposed an eight-page book.
C7_Witness ==
    /\ out.call = "_buildSaddleStitchPDF"
    /\ Len(_rawCanvases) = 8
    /\ out.built # Null

\* C8: with a number of captured pages not divisible by 4,
\* _buildSaddleStitchPDF throws its page-count error and saveSaddleStitch
\* alerts one; neither builds a pair list or a document, and nothing is saved.
C8_SaddleStitchRejects ==
    Len(_rawCanvases) % 4 # 0 =>
        /\ out.call = "_buildSaddleStitchPDF" =>
              /\ out.thrown = "saveSaddleStitch() requires a page count divisible by 4"
              /\ out.pairs = Null /\ out.built = Null /\ out.saved = Null
        /\ out.call = "saveSaddleStitch" =>
              /\ out.alert # Null
              /\ Val(out.alert)[1] = "page count must be divisible by 4"
              /\ out.pairs = Null /\ out.built = Null /\ out.saved = Null

\* saveSaddleStitch was called on a book of six pages and alerted.
C8_Witness ==
    /\ out.call = "saveSaddleStitch"
    /\ Len(_rawCanvases) = 6
    /\ out.alert = Some(<<"page count must be divisible by 4", 6, 8>>)

----------------------------------------------------------------------------
(* Properties of text flow, checked under SpecFlow.                         *)

\* C10: for any text and any fixed box, column count and gutter, calling
\* textBox again and again with the previous call's overflow reaches an empty
\* overflow after finitely many calls: every call on a text that wraps to at
\* least one line draws at least one line and leaves fewer lines to place,
\* and a call that leaves no line to place returns the empty overflow.
C10_FlowTerminates ==
    [][(flow.phase = "flowing" /\ flow'.calls = flow.calls + 1)
          => /\ flow.left > 0 => /\ Len(flow'.drawn) > Len(flow.drawn)
                                 /\ flow'.left < flow.left
             /\ flow'.left >= 0
             /\ flow'.left = 0 <=> flow'.text = <<>>]_vars

\* A text of three words on three lines has been placed by three calls into
\* a box of one column that holds one line.
C10_Witness ==
    /\ flow.phase = "done"
    /\ _columns = 1
    /\ MaxLines(flow.box.h, flow.m.ascent, GetLeading(flow.m)) = 1
    /\ Len(flow.drawn) = 3
    /\ \A i \in 1..3 : flow.drawn[i] # <<>>
    /\ flow.calls = 3
    /\ flow.text = <<>>

\* C11: when a flow has ended (the overflow is empty), the lines drawn by its
\* successive textBox calls, in order, are exactly the lines a single wrap of
\* the whole text at the same column width produces, blank lines included
\* (the empty text, which textBox returns at once, aside).
C11_FlowLossless ==
    (flow.phase = "done" /\ flow.src # <<>>)
        => flow.drawn = WrapText(flow.src, ColW(flow.box))

\* The words of a string: its pieces between spaces, empty pieces left out.
Words(str) == SelectSeq(Split(str, " "), LAMBDA w : w # <<>>)

\* A text with its line breaks read as spaces.
Unbroken(str) == [i \in 1..Len(str) |-> IF str[i] = "\n" THEN " " ELSE str[i]]

\* Within one paragraph, a line is committed only when the next word would
\* not have fitted on it.
GreedyIn(para, colW) ==
    LET ls == WrapText(para, colW)
    IN  \A i \in 1..(Len(ls) - 1) :
            FGt(FInt(textWidth(ls[i] \o <<" ">> \o Head(Words(ls[i + 1])))), colW)

\* C12: the lines _wrapText makes of a text are its greedy packing: a line of
\* two or more words measures at most the column width; every line is its
\* words joined by single spaces; the words of the lines are the words of the
\* text, in order; a word wider than the column is alone on its line; within
\* a paragraph a line ends only where the next word would not fit; and
\* "aa bb cc" at width 5 gives "aa bb", "cc" with no overflow when the box
\* holds two lines.
C12_GreedyWrap ==
    flow.phase # "idle" =>
        LET colW == ColW(flow.box)
            lines == WrapText(flow.src, colW)
            paras == Split(flow.src, "\n")
        IN  /\ \A i \in 1..Len(lines) :
                   /\ Len(Words(lines[i])) >= 2
                         => ~FGt(FInt(textWidth(lines[i])), colW)
                   /\ lines[i] = Join(Words(lines[i]), " ")
                   /\ \A k \in 1..Len(Words(lines[i])) :
                         FGt(FInt(textWidth(Words(lines[i])[k])), colW)
                            => Len(Words(lines[i])) = 1
            /\ Words(Join(lines, " ")) = Words(Unbroken(flow.src))
            /\ \A p \in 1..Len(paras) : GreedyIn(paras[p], colW)
            /\ (flow.src = ExampleText /\ colW = FInt(5))
                  => /\ lines = << <<"a", "a", " ", "b", "b">>, <<"c", "c">> >>
                     /\ (flow.calls >= 1
                          /\ _columns * MaxLines(flow.box.h, flow.m.ascent,
                                                 GetLeading(flow.m)) >= 2)
                           => (flow.text = <<>> /\ flow.drawn = lines)

\* "aa bb cc" has been placed by one call into a box five units wide.
C12_Witness ==
    /\ flow.phase = "done"
    /\ flow.src = ExampleText
    /\ ColW(flow.box) = FInt(5)
    /\ flow.calls = 1
    /\ flow.drawn = << <<"a", "a", " ", "b", "b">>, <<"c", "c">> >>

Min(a, b) == IF a < b THEN a ELSE b

\* C20: a textBox call on a text that wraps to L lines, with
\* maxLines = max(1, floor((h - ascent) / leading) + 1), draws exactly
\* min(L, columns * maxLines) lines; the k-th (from 0) is line k of the wrap,
\* drawn in column k div maxLines at x + column * (columnWidth + gutter) and
\* in row k mod maxLines; and the overflow returned is the remaining lines in
\* order, joined by line breaks.
C20_ColumnDistribution ==
    [][(flow.phase = "flowing" /\ flow'.calls = flow.calls + 1 /\ flow.text # <<>>)
          => LET box == flow.box
                 colW == ColW(box)
                 leading == GetLeading(flow.m)
                 ascent == flow.m.ascent
                 maxLines == Max(1, (box.h - ascent) \div leading + 1)
                 lines == WrapText(flow.text, colW)
                 L == Len(lines)
                 n == Min(L, _columns * maxLines)
                 d == out'.drawn
             IN  /\ Len(d) = n
                 /\ \A k \in 0..(n - 1) :
                       /\ d[k + 1].str = lines[k + 1]
                       /\ d[k + 1].x = FAdd(FInt(box.x),
                                            FMul(FInt(k \div maxLines),
                                                 FAdd(colW, FInt(_columnGutter))))
                       /\ d[k + 1].y = box.y + ascent + (k % maxLines) * leading
                 /\ flow'.text = Join(SubSeq(lines, n + 1, L), "\n")]_vars

\* A call has filled two columns of one line each and returned overflow.
C20_Witness ==
    /\ out.call = "textBox"
    /\ _columns = 2
    /\ Len(out.drawn) = 2
    /\ out.drawn[1].x # out.drawn[2].x
    /\ out.drawn[1].y = out.drawn[2].y
    /\ flow.phase = "flowing"
    /\ flow.text # <<>>

----------------------------------------------------------------------------
(* Properties of print marks, the bleed buffer and completion.              *)

FMin(a, b) == IF FGt(a, b) THEN b ELSE a
FMax(a, b) == IF FGt(a, b) THEN a ELSE b

\* The segment has a point strictly inside the box (0, w) x (0, h). On a page
\* of the document that box is the trim rectangle with its bleed zone.
EntersBox(seg, w, h) ==
    /\ FGt(w, FMin(seg.ax, seg.bx))
    /\ FGt(FMax(seg.ax, seg.bx), FInt(0))
    /\ FGt(h, FMin(seg.ay, seg.by))
    /\ FGt(FMax(seg.ay, seg.by), FInt(0))

\* C13: no mark segment on any page of the document enters the trim
\* rectangle or the bleed zone around it.
C13_MarksOutsideBleedAndTrim ==
    \A i \in 1..Len(_pdf) :
        \A j \in 1..Len(_pdf[i].marks) :
            ~EntersBox(_pdf[i].marks[j],
                       bleedWidthOf(_bleed), bleedHeightOf(_bleed))

\* The marks of the page that an addPage step has just written.
NewMarks == _pdf'[Len(_pdf')].marks

\* The segments of a mark list with the given style and direction.
Segments(marks, dashed, horizontal) ==
    {j \in 1..Len(marks) :
        /\ marks[j].dashed = dashed
        /\ (marks[j].ay = marks[j].by) = horizontal}

\* C14: an addPage with print marks on and bleed b > 0 puts two sets of marks
\* on the page, solid trim marks and dashed bleed marks, each of one
\* horizontal and one vertical segment at each of the four corners.
C14_TrimAndBleedMarks ==
    [][(out'.call = "addPage" /\ _printMarks /\ FGt(_bleed, FInt(0)))
          => \A dashed \in BOOLEAN, horizontal \in BOOLEAN :
                Cardinality(Segments(NewMarks, dashed, horizontal)) = 4]_vars

\* C15: setPrintMarks never throws, before or after a capture; and an addPage
\* draws marks on its page exactly when the flag is on, with or without
\* bleed.
C15_MarksFollowFlag ==
    [][/\ out'.call = "setPrintMarks" => out'.thrown = ""
       /\ out'.call = "addPage"
            => /\ _printMarks => Segments(NewMarks, FALSE, TRUE) # {}
               /\ ~_printMarks => NewMarks = <<>>]_vars

\* C16: in a book without a target page count isLastPage is never true, and
\* only finish() stops the loop or opens the viewer: no addPage does.
C16_OpenEndedNeverCompletes ==
    [][totalPages = Null
          => /\ ~isLastPage /\ ~isLastPage'
             /\ (viewers' # viewers \/ looping' # looping)
                   => out'.call = "finish"]_vars

\* An open-ended book has captured pages and is still collecting.
C16_Witness ==
    /\ totalPages = Null
    /\ page >= 2
    /\ out.call = "addPage"
    /\ viewers = 0
    /\ looping

\* C17: a setBleed call with a unit outside the recognized set throws and
\* leaves the bleed as it was, and no book exists that was constructed with
\* such a unit.
C17_UnknownUnitRejected ==
    /\ \A tp \in TotalArgs, u \in UnitArgs :
          (Val(u) \notin UNITS /\ BookInitWith(tp, u)) => out.thrown # ""
    /\ [][\A amount \in BleedAmounts, unit \in BleedUnits :
            (unit # Null /\ Val(unit) \notin UNITS /\ setBleed(amount, unit))
               => (out'.thrown # "" /\ _bleed' = _bleed)]_vars

\* C18: a drawing call on book.bleed changes nothing while setBleed has not
\* been called, and an addPage then captures the canvas alone; once setBleed
\* has been called, every addPage composites the buffer under the canvas and
\* leaves the buffer clear.
C18_BleedBufferLifecycle ==
    [][/\ (out'.call = "bleed.background" /\ bleed.noop) => bleed' = bleed
       /\ out'.call = "addPage"
            => LET raw == _rawCanvases'[Len(_rawCanvases')]
               IN  IF bleed.noop
                   THEN raw.under = Null
                   ELSE raw.under = Some(bleed.ink) /\ bleed'.ink = {}]_vars

\* C19: the addPage that brings the page counter to totalPages saves the PDF
\* and stops the loop.
C19_SavedAfterLastPage ==
    [][(out'.call = "addPage" /\ totalPages # Null /\ page' = Val(totalPages))
          => (out'.saved # Null /\ ~looping')]_vars

----------------------------------------------------------------------------
(* Properties of the column settings and of empty input, under SpecFlow.    *)

\* C21: the column count is at least 1 in every state; columnNum() with no
\* argument changes nothing and returns the count; columnNum(n) sets the
\* count to n, or to 1 when n is less, and leaves the gutter as it was;
\* columnNum(n, gutter) sets both; and no other step, textBox included,
\* changes the count or the gutter.
C21_ColumnsSticky ==
    [][/\ _columns >= 1 /\ _columns' >= 1
       /\ IF out'.call = "columnNum"
          THEN LET n == out'.args[1]
                   gutter == out'.args[2]
               IN  IF n = Null
                   THEN /\ UNCHANGED <<_columns, _columnGutter>>
                        /\ out'.returned = Some(_columns)
                   ELSE /\ _columns' = (IF Val(n) < 1 THEN 1 ELSE Val(n))
                        /\ _columnGutter' = (IF gutter = Null THEN _columnGutter
                                                              ELSE Val(gutter))
          ELSE UNCHANGED <<_columns, _columnGutter>>]_vars

\* columnNum(2, 1) was followed by columnNum(0): the count is clamped to 1,
\* the gutter still 1, and textBox calls have since placed a text.
C21_Witness ==
    /\ _columns = 1
    /\ _columnGutter = 1
    /\ flow.phase = "done"
    /\ flow.calls >= 2

\* C22: a textBox call on the empty text draws nothing, returns the empty
\* overflow and calls none of textLeading, textSize, textAscent, textWidth.
C22_EmptyInputIsQuiet ==
    [][(flow.phase = "flowing" /\ flow'.calls = flow.calls + 1 /\ flow.text = <<>>)
          => /\ out'.drawn = <<>>
             /\ out'.returned = Some(<<>>)
             /\ out'.measured = <<>>
             /\ flow'.drawn = flow.drawn]_vars

\* textBox has been called on the empty text.
C22_Witness ==
    /\ out.call = "textBox"
    /\ flow.phase = "done"
    /\ flow.src = <<>>
    /\ flow.calls = 1

----------------------------------------------------------------------------
(* Properties of raster geometry.                                           *)

FSub(a, b) == FAdd(a, FMul(FInt(-1), b))

\* The spread raster is made of the left raster's columns [0, rawW - bleedPx)
\* and the right raster's columns [bleedPx, rawW), unscaled, set edge to edge
\* from column 0 to its last column, where bleedPx = (rawW - mainW) / 2.
OuterBleedsOnly(cvs) ==
    LET rawW == FInt(cvs.left.width)
        mainW == FInt(CanvasW)
        bleedPx == FDiv(FSub(rawW, mainW), FInt(2))
        l == cvs.draws[1]
        r == cvs.draws[2]
    IN  /\ cvs.right.width = cvs.left.width
        /\ cvs.width = FAdd(FMul(FInt(2), mainW), FMul(FInt(2), bleedPx))
        /\ Len(cvs.draws) = 2
        /\ l.src = "left" /\ r.src = "right"
        /\ l.sx = FInt(0) /\ FAdd(l.sx, l.sw) = FSub(rawW, bleedPx)
        /\ r.sx = bleedPx /\ FAdd(r.sx, r.sw) = rawW
        /\ l.dw = l.sw /\ r.dw = r.sw
        /\ l.dx = FInt(0)
        /\ r.dx = FAdd(l.dx, l.dw)
        /\ FAdd(r.dx, r.dw) = cvs.width

\* C23: in every document a builder returns, a solo page is trimWidth + 2b by
\* trimHeight + 2b; a spread page is 2 trimWidth + 2b by trimHeight + 2b, and
\* its raster keeps only the outer bleeds of its two page rasters.
C23_SpreadKeepsOuterBleeds ==
    out.built # Null =>
        \A i \in 1..Len(Val(out.built)) :
            LET pg == Val(out.built)[i]
                pair == Val(out.pairs)[i]
                twoB == FMul(FInt(2), _bleed)
                h == FAdd(FInt(TrimH), twoB)
            IN  IF pair[2] = Null
                THEN pg.size = <<FAdd(FInt(TrimW), twoB), h>>
                ELSE /\ pg.size = <<FAdd(FInt(2 * TrimW), twoB), h>>
                     /\ Val(pg.img).w = pg.size[1]
                     /\ Val(pg.img).h = pg.size[2]
                     /\ OuterBleedsOnly(Val(pg.img).data.jpeg)

\* A spread document has been built from pages with bleed whose two bleed
\* strips together are an odd number of pixels wide.
C23_Witness ==
    /\ out.call = "_buildSpreadPDF"
    /\ out.built # Null
    /\ Len(Val(out.built)) >= 3
    /\ FGt(_bleed, FInt(0))
    /\ (_rawCanvases[2].width - CanvasW) % 2 = 1

\* C24: in every captured raster with bleed the canvas sits centered: its
\* left margin offX equals the right margin rawW - mainW - offX, likewise
\* vertically, and it does not extend past the raster.
C24_TrimCentered ==
    \A i \in 1..Len(_rawCanvases) :
        LET raw == _rawCanvases[i]
        IN  raw.under # Null
              => /\ raw.trimAt[1] = raw.width - raw.trimSize[1] - raw.trimAt[1]
                 /\ raw.trimAt[2] = raw.height - raw.trimSize[2] - raw.trimAt[2]
                 /\ raw.trimAt[1] + raw.trimSize[1] <= raw.width
                 /\ raw.trimAt[2] + raw.trimSize[2] <= raw.height

----------------------------------------------------------------------------
(* Properties of the page list, under SpecBook, and of the impositions.     *)

\* C25: the page counter equals the number of stored rasters and of stored
\* page images; it never decreases; an addPage raises it by one and appends
\* one raster and one image, the earlier ones kept in order; and no other
\* step changes the counter or either list.
C25_PageListFollowsCounter ==
    [][/\ page = Len(_rawCanvases) /\ page = Len(_pageImages)
       /\ page' = Len(_rawCanvases') /\ page' = Len(_pageImages')
       /\ page' >= page
       /\ IF out'.call = "addPage"
          THEN /\ page' = page + 1
               /\ SubSeq(_rawCanvases', 1, page) = _rawCanvases
               /\ SubSeq(_pageImages', 1, page) = _pageImages
               /\ _rawCanvases'[page'].frame = page
               /\ _pageImages'[page'] = Jpeg(_rawCanvases'[page'])
          ELSE UNCHANGED <<page, _rawCanvases, _pageImages>>]_vars

\* Three pages are stored in capture order, and since the last capture other
\* methods have been called.
C25_Witness ==
    /\ page = 3
    /\ \A i \in 1..3 : _rawCanvases[i].frame = i - 1
    /\ out.call = "saveSaddleStitch"
    /\ flow.phase = "done"
    /\ viewers >= 1

\* How often page index k occurs in a pair list.
Occurrences(pairs, k) ==
    Cardinality({i \in 1..Len(pairs) : pairs[i][1] = k})
    + Cardinality({i \in 1..Len(pairs) : pairs[i][2] = Some(k)})

\* C26: a pair list handed to _buildSpreadsFromPairs, by either scheme, holds
\* every page index 0..n-1 exactly once and no other index; in a
\* saddle-stitch list the two indices of each pair sum to n - 1, the left one
\* odd and the right one even.
C26_EveryPageOnce ==
    out.pairs # Null =>
        LET pairs == Val(out.pairs)
            n == Len(_rawCanvases)
        IN  /\ \A k \in 0..(n - 1) : Occurrences(pairs, k) = 1
            /\ \A i \in 1..Len(pairs) :
                  /\ pairs[i][1] \in 0..(n - 1)
                  /\ pairs[i][2] # Null => Val(pairs[i][2]) \in 0..(n - 1)
            /\ out.call \in {"_buildSaddleStitchPDF", "saveSaddleStitch"}
                  => \A i \in 1..Len(pairs) :
                        /\ pairs[i][2] # Null
                        /\ pairs[i][1] + Val(pairs[i][2]) = n - 1
                        /\ pairs[i][1] % 2 = 1
                        /\ Val(pairs[i][2]) % 2 = 0

\* Eight pages have been exported as reader spreads.
C26_Witness ==
    /\ out.call = "save"
    /\ out.pairs # Null
    /\ out.saved # Null
    /\ Len(_rawCanvases) = 8

====
